---------------------------- MODULE Spec2Model ----------------------------
(***************************************************************************)
(* Host-side bridge that runs a Javy guest in a WASI sandbox and exchanges *)
(* JSON through three temporary files (stdin / stdout / stderr).           *)
(*                                                                         *)
(* The repository holds four evolutions of the same script:                *)
(*   "runA"    src/host.mjs 15-89      run, guest linked against           *)
(*                                     {...wasiImports, provider}          *)
(*   "runB"    src/host.mjs 112-198    run, guest linked against           *)
(*                                     {provider}, memory re-export hack   *)
(*   "runJavy" src/unnamed/part_000    runJavy, reactor convention,        *)
(*                                     modules compiled by the caller      *)
(*   "runC"    src/unnamed/part_001    run, single (statically linked)     *)
(*                                     module, input written via handle    *)
(*                                                                         *)
(* Text is modelled as a sequence of one-character strings; JavaScript     *)
(* values as records with a type tag.                                      *)
(***************************************************************************)
EXTENDS Integers, Sequences, FiniteSets, TLC

(***************************************************************************)
(* Bounds                                                                  *)
(***************************************************************************)
\* longest channel content enumerated exhaustively over Alphabet
MaxLen == 3

(***************************************************************************)
(* Characters                                                              *)
(***************************************************************************)
\* U+00A0: white space for String.prototype.trim, not for the JSON grammar
NBSP == "nbsp"
QUOTE == "\""
BSLASH == "\\"
NL == "\n"

\* white space removed by String.prototype.trim (the part of it the model uses)
TrimWs == {" ", NL, NBSP}
\* white space of the JSON grammar (the part of it the model uses)
JsonWs == {" ", NL}
\* characters that may not appear unescaped inside a JSON string
ControlChars == {NL}

DigitVal == [c \in {"0", "1", "2", "3", "4", "5", "6", "7", "8", "9"} |->
              CASE c = "0" -> 0 [] c = "1" -> 1 [] c = "2" -> 2 [] c = "3" -> 3
                [] c = "4" -> 4 [] c = "5" -> 5 [] c = "6" -> 6 [] c = "7" -> 7
                [] c = "8" -> 8 [] c = "9" -> 9]
Digits == DOMAIN DigitVal
DigitChar == [d \in 0..9 |-> CHOOSE c \in Digits : DigitVal[c] = d]

\* the escapes of the JSON string grammar the model uses: \" \\ \/ \n
EscapeMap == [c \in {QUOTE, BSLASH, "/", "n"} |->
               CASE c = QUOTE -> QUOTE [] c = BSLASH -> BSLASH
                 [] c = "/" -> "/" [] c = "n" -> NL]

\* the characters channel contents are enumerated over
Alphabet == {" ", NBSP, "0", "1", "-", QUOTE, BSLASH, "a", "[", "]", ","}

(***************************************************************************)
(* JavaScript values                                                       *)
(***************************************************************************)
JVal(t, n, s, a, o) == [t |-> t, n |-> n, s |-> s, a |-> a, o |-> o]
JUndefined == JVal("undefined", 0, <<>>, <<>>, <<>>)
JNull == JVal("null", 0, <<>>, <<>>, <<>>)
JTrue == JVal("true", 0, <<>>, <<>>, <<>>)
JFalse == JVal("false", 0, <<>>, <<>>, <<>>)
JNum(n) == JVal("number", n, <<>>, <<>>, <<>>)
JStr(s) == JVal("string", 0, s, <<>>, <<>>)
\* a: the elements, in order
JArr(a) == JVal("array", 0, <<>>, a, <<>>)
\* o: the own properties [k, v], in property order, keys distinct
JObj(o) == JVal("object", 0, <<>>, <<>>, o)

\* ToBoolean: undefined, null, false, 0 and "" are falsy, everything else truthy
Truthy(v) ==
  CASE v.t \in {"undefined", "null", "false"} -> FALSE
    [] v.t = "number" -> v.n # 0
    [] v.t = "string" -> v.s # <<>>
    [] OTHER -> TRUE

RECURSIVE NatDigits(_)
NatDigits(n) == IF n < 10 THEN <<DigitChar[n]>>
                ELSE Append(NatDigits(n \div 10), DigitChar[n % 10])
\* Number::toString for integers
NumText(n) == IF n < 0 THEN <<"-">> \o NatDigits(0 - n) ELSE NatDigits(n)

(***************************************************************************)
(* String.prototype.trim                                                   *)
(***************************************************************************)
RECURSIVE TrimStart(_)
TrimStart(str) == IF str # <<>> /\ Head(str) \in TrimWs THEN TrimStart(Tail(str))
                  ELSE str
RECURSIVE TrimEnd(_)
TrimEnd(str) == IF str # <<>> /\ str[Len(str)] \in TrimWs
                THEN TrimEnd(SubSeq(str, 1, Len(str) - 1))
                ELSE str
Trim(str) == TrimEnd(TrimStart(str))

(***************************************************************************)
(* JSON.parse: a recursive-descent reading of the JSON grammar.            *)
(* A parse step yields [ok, v, i]: whether a value was read, the value,    *)
(* and the index of the first character after it.  Numbers are integers:   *)
(* no channel content of the model holds a fraction or an exponent.        *)
(***************************************************************************)
PFail == [ok |-> FALSE, v |-> JUndefined, i |-> 0]
POk(v, i) == [ok |-> TRUE, v |-> v, i |-> i]

RECURSIVE SkipWs(_, _)
SkipWs(s, i) == IF i <= Len(s) /\ s[i] \in JsonWs THEN SkipWs(s, i + 1) ELSE i

\* s starts with lit at index i
Matches(s, i, lit) ==
  /\ i + Len(lit) - 1 <= Len(s)
  /\ \A k \in 1..Len(lit) : s[i + k - 1] = lit[k]

\* the characters of a string literal whose opening quote is before index i
RECURSIVE ParseStringBody(_, _, _)
ParseStringBody(s, i, acc) ==
  IF i > Len(s) THEN PFail
  ELSE IF s[i] = QUOTE THEN POk(JStr(acc), i + 1)
  ELSE IF s[i] = BSLASH
       THEN IF i + 1 <= Len(s) /\ s[i + 1] \in DOMAIN EscapeMap
            THEN ParseStringBody(s, i + 2, Append(acc, EscapeMap[s[i + 1]]))
            ELSE PFail
  ELSE IF s[i] \in ControlChars THEN PFail
  ELSE ParseStringBody(s, i + 1, Append(acc, s[i]))

\* the digits from index i on, folded into acc
RECURSIVE ParseDigits(_, _, _)
ParseDigits(s, i, acc) ==
  IF i <= Len(s) /\ s[i] \in Digits
  THEN ParseDigits(s, i + 1, 10 * acc + DigitVal[s[i]])
  ELSE [n |-> acc, i |-> i]

\* -?(0|[1-9][0-9]*)
ParseNumber(s, i) ==
  LET neg == i <= Len(s) /\ s[i] = "-"
      j == IF neg THEN i + 1 ELSE i
  IN  IF j > Len(s) \/ s[j] \notin Digits THEN PFail
      ELSE IF s[j] = "0" THEN POk(JNum(0), j + 1)
      ELSE LET d == ParseDigits(s, j, 0)
           IN  POk(JNum(IF neg THEN 0 - d.n ELSE d.n), d.i)

\* [[Set]] of a property: an existing key keeps its place and takes the new value
SetProp(o, k, v) ==
  IF \E x \in 1..Len(o) : o[x].k = k
  THEN [x \in 1..Len(o) |-> IF o[x].k = k THEN [k |-> k, v |-> v] ELSE o[x]]
  ELSE Append(o, [k |-> k, v |-> v])

RECURSIVE ParseValue(_, _)
RECURSIVE ParseElements(_, _, _)
RECURSIVE ParseMembers(_, _, _)

\* the elements of an array after "[" or ",": value, then "," or "]"
ParseElements(s, i, acc) ==
  LET r == ParseValue(s, SkipWs(s, i))
  IN  IF ~r.ok THEN PFail
      ELSE LET j == SkipWs(s, r.i)
               acc2 == Append(acc, r.v)
           IN  IF j > Len(s) THEN PFail
               ELSE IF s[j] = "]" THEN POk(JArr(acc2), j + 1)
               ELSE IF s[j] = "," THEN ParseElements(s, j + 1, acc2)
               ELSE PFail

\* the members of an object after "{" or ",": string ":" value, then "," or "}"
ParseMembers(s, i, acc) ==
  LET j == SkipWs(s, i)
  IN  IF j > Len(s) \/ s[j] # QUOTE THEN PFail
      ELSE LET k == ParseStringBody(s, j + 1, <<>>)
           IN  IF ~k.ok THEN PFail
               ELSE LET c == SkipWs(s, k.i)
                    IN  IF c > Len(s) \/ s[c] # ":" THEN PFail
                        ELSE LET r == ParseValue(s, SkipWs(s, c + 1))
                             IN  IF ~r.ok THEN PFail
                                 ELSE LET e == SkipWs(s, r.i)
                                          acc2 == SetProp(acc, k.v.s, r.v)
                                      IN  IF e > Len(s) THEN PFail
                                          ELSE IF s[e] = "}" THEN POk(JObj(acc2), e + 1)
                                          ELSE IF s[e] = "," THEN ParseMembers(s, e + 1, acc2)
                                          ELSE PFail

ParseValue(s, i) ==
  IF i > Len(s) THEN PFail
  ELSE IF s[i] = QUOTE THEN ParseStringBody(s, i + 1, <<>>)
  ELSE IF s[i] = "-" \/ s[i] \in Digits THEN ParseNumber(s, i)
  ELSE IF s[i] = "[" THEN
         LET j == SkipWs(s, i + 1)
         IN  IF j <= Len(s) /\ s[j] = "]" THEN POk(JArr(<<>>), j + 1)
             ELSE ParseElements(s, i + 1, <<>>)
  ELSE IF s[i] = "{" THEN
         LET j == SkipWs(s, i + 1)
         IN  IF j <= Len(s) /\ s[j] = "}" THEN POk(JObj(<<>>), j + 1)
             ELSE ParseMembers(s, i + 1, <<>>)
  ELSE IF Matches(s, i, <<"n", "u", "l", "l">>) THEN POk(JNull, i + 4)
  ELSE IF Matches(s, i, <<"t", "r", "u", "e">>) THEN POk(JTrue, i + 4)
  ELSE IF Matches(s, i, <<"f", "a", "l", "s", "e">>) THEN POk(JFalse, i + 5)
  ELSE PFail

\* JSON.parse(text): a completion, either the value or a thrown SyntaxError
JSONParse(text) ==
  LET r == ParseValue(text, SkipWs(text, 1))
  IN  IF r.ok /\ SkipWs(text, r.i) > Len(text)
      THEN [threw |-> FALSE, v |-> r.v]
      ELSE [threw |-> TRUE, v |-> JUndefined]

(***************************************************************************)
(* JSON.stringify (compact form, no indent)                                *)
(***************************************************************************)
\* QuoteJSONString without the surrounding quotes
RECURSIVE EscapeChars(_)
EscapeChars(str) ==
  IF str = <<>> THEN <<>>
  ELSE (CASE Head(str) = QUOTE -> <<BSLASH, QUOTE>>
          [] Head(str) = BSLASH -> <<BSLASH, BSLASH>>
          [] Head(str) = NL -> <<BSLASH, "n">>
          [] OTHER -> <<Head(str)>>) \o EscapeChars(Tail(str))
QuoteJSONString(str) == <<QUOTE>> \o EscapeChars(str) \o <<QUOTE>>

RECURSIVE JSONStringify(_)
RECURSIVE StringifyElements(_)
RECURSIVE StringifyMembers(_)
StringifyElements(a) ==
  IF a = <<>> THEN <<>>
  ELSE JSONStringify(Head(a))
       \o (IF Len(a) > 1 THEN <<",">> \o StringifyElements(Tail(a)) ELSE <<>>)
StringifyMembers(o) ==
  IF o = <<>> THEN <<>>
  ELSE QuoteJSONString(Head(o).k) \o <<":">> \o JSONStringify(Head(o).v)
       \o (IF Len(o) > 1 THEN <<",">> \o StringifyMembers(Tail(o)) ELSE <<>>)
JSONStringify(v) ==
  CASE v.t = "null" -> <<"n", "u", "l", "l">>
    [] v.t = "true" -> <<"t", "r", "u", "e">>
    [] v.t = "false" -> <<"f", "a", "l", "s", "e">>
    [] v.t = "number" -> NumText(v.n)
    [] v.t = "string" -> QuoteJSONString(v.s)
    [] v.t = "array" -> <<"[">> \o StringifyElements(v.a) \o <<"]">>
    [] v.t = "object" -> <<"{">> \o StringifyMembers(v.o) \o <<"}">>

(***************************************************************************)
(* JSToString, as applied by new Error(message) to its argument              *)
(***************************************************************************)
RECURSIVE JSToString(_)
RECURSIVE JoinElements(_)
\* Array.prototype.join(","): null and undefined elements give the empty string
JoinElements(a) ==
  IF a = <<>> THEN <<>>
  ELSE (IF Head(a).t \in {"null", "undefined"} THEN <<>> ELSE JSToString(Head(a)))
       \o (IF Len(a) > 1 THEN <<",">> \o JoinElements(Tail(a)) ELSE <<>>)
JSToString(v) ==
  CASE v.t = "undefined" -> <<"u", "n", "d", "e", "f", "i", "n", "e", "d">>
    [] v.t = "null" -> <<"n", "u", "l", "l">>
    [] v.t = "true" -> <<"t", "r", "u", "e">>
    [] v.t = "false" -> <<"f", "a", "l", "s", "e">>
    [] v.t = "number" -> NumText(v.n)
    [] v.t = "string" -> v.s
    [] v.t = "array" -> JoinElements(v.a)
    [] v.t = "object" -> <<"[", "o", "b", "j", "e", "c", "t", " ",
                           "O", "b", "j", "e", "c", "t", "]">>

(***************************************************************************)
(* readOutput(filePath), applied to the file's content                     *)
(***************************************************************************)

\* readOutput without the trim
readOutputNoTrim(content) ==
  LET parsed == JSONParse(content)
  IN  IF parsed.threw
      THEN [threw |-> FALSE, v |-> JStr(content)]
      ELSE [threw |-> FALSE, v |-> parsed.v]
\* a completion: the value returned, or threw
readOutput(content) ==
  LET str == Trim(content)
      parsed == JSONParse(str)
  IN  IF parsed.threw
      THEN [threw |-> FALSE, v |-> JStr(str)]
      ELSE [threw |-> FALSE, v |-> parsed.v]

(***************************************************************************)
(* The four scripts                                                        *)
(***************************************************************************)
Variants == {"runA", "runB", "runJavy", "runC"}
Channels == {"stdin", "stdout", "stderr"}
ProviderNamespace == "javy_quickjs_provider_v1"
WasiNamespace == "wasi_snapshot_preview1"

\* run of src/host.mjs calling wasi.start a second time after the first
StepsRunARetry ==
  <<"writeInput", "open", "compileGuest", "compileProvider", "instProvider",
    "instGuest", "start", "start", "read">>
\* the awaited steps of each script, in program order; the try block starts
\* after "open"
StepsRunA ==
  <<"writeInput", "open", "compileGuest", "compileProvider", "instProvider",
    "instGuest", "start", "read">>
StepsRunB ==
  <<"writeInput", "open", "compileGuest", "compileProvider", "instProvider",
    "instGuest", "start", "read">>
\* runJavy calling the guest's _start before initializing the provider
StepsRunJavyStartFirst ==
  <<"compileModules", "writeInput", "open", "instProvider", "instGuest",
    "_start", "initialize", "read">>
\* the top-level script compiles both modules, then calls runJavy
StepsRunJavy ==
  <<"compileModules", "writeInput", "open", "instProvider", "instGuest",
    "initialize", "_start", "read">>

\* runC with the input written after the sandbox has run
StepsRunCLateWrite ==
  <<"open", "compileGuest", "instGuest", "start", "writeInput", "read">>
StepsRunC ==
  <<"open", "compileGuest", "instGuest", "writeInput", "start", "read">>
Steps(v) ==
  CASE v = "runA" -> StepsRunA
    [] v = "runB" -> StepsRunB
    [] v = "runJavy" -> StepsRunJavy
    [] v = "runC" -> StepsRunC

StepIndex(v, step) == CHOOSE i \in 1..Len(Steps(v)) : Steps(v)[i] = step
IsStep(v, step) == \E i \in 1..Len(Steps(v)) : Steps(v)[i] = step
NextStep(v, step) == Steps(v)[StepIndex(v, step) + 1]
\* the step is inside try { ... }
InTry(v, step) == IsStep(v, step) /\ StepIndex(v, step) > StepIndex(v, "open")

\* an import object is a set of entries: a namespace and the object it is
\* bound to
ImportEntry(ns, from) == [ns |-> ns, from |-> from]
\* wasi.getImportObject()
WasiImports == {ImportEntry(WasiNamespace, "wasi")}
\* javy_quickjs_provider_v1: providerInstance.exports
ProviderEntry == ImportEntry(ProviderNamespace, "providerInstance.exports")

\* the import object the guest module is instantiated against
GuestImportsRunA == WasiImports \cup {ProviderEntry}
GuestImportsRunB == {ProviderEntry}
GuestImportsRunJavy == {ProviderEntry}
GuestImportsRunC == WasiImports
GuestImports(v) ==
  CASE v = "runA" -> GuestImportsRunA
    [] v = "runB" -> GuestImportsRunB
    [] v = "runJavy" -> GuestImportsRunJavy
    [] v = "runC" -> GuestImportsRunC

\* the flags the channel files are opened with
OpenFlags(v, ch) ==
  IF ch = "stdin" THEN (IF v = "runC" THEN "a+" ELSE "r") ELSE "a"

\* the catch handler: whether it reads the error channel for the exception e,
\* and what it does when it read nothing truthy or did not read
HandlerRunA(e) ==
  IF e.name = "RuntimeError" THEN [read |-> TRUE, rest |-> "swallow"]
  ELSE [read |-> FALSE, rest |-> "rethrow"]
HandlerRunB(e) ==
  IF e.name = "RuntimeError" THEN [read |-> TRUE, rest |-> "swallow"]
  ELSE [read |-> FALSE, rest |-> "rethrow"]

\* runJavy with the handler of runC, which swallows what it cannot explain
HandlerRunJavySwallow(e) == [read |-> TRUE, rest |-> "swallow"]
HandlerRunJavy(e) ==
  IF e.name = "RuntimeError" THEN [read |-> TRUE, rest |-> "rethrow"]
  ELSE [read |-> FALSE, rest |-> "rethrow"]
HandlerRunC(e) == [read |-> TRUE, rest |-> "swallow"]
Handler(v, e) ==
  CASE v = "runA" -> HandlerRunA(e)
    [] v = "runB" -> HandlerRunB(e)
    [] v = "runJavy" -> HandlerRunJavy(e)
    [] v = "runC" -> HandlerRunC(e)


\* a finally block that forgets the error channel's handle
FinallyClosesTwo == {"stdin", "stdout"}
\* the handles the finally block closes
FinallyCloses == {"stdin", "stdout", "stderr"}


\* the input written with String(input) instead of JSON.stringify(input)
SerializeInputToString(v) == JSToString(v)
\* the text written to the input channel
SerializeInput(v) == JSONStringify(v)

(***************************************************************************)
(* Errors and completions                                                  *)
(***************************************************************************)
Err(name, message) == [name |-> name, message |-> message]
NoError == Err("none", <<>>)
\* new Error(message)
NewError(v) == Err("Error", JSToString(v))
RuntimeError == Err("RuntimeError", <<"unreachable">>)
LinkError == Err("LinkError", <<"import">>)
CompileError == Err("CompileError", <<"invalid module">>)
TypeError == Err("TypeError", <<"invalid instance">>)
\* a failed file-system call (open, read, write)
SystemError == Err("SystemError", <<"EIO">>)

Completion(type, v, e) == [type |-> type, value |-> v, error |-> e]
NoCompletion == Completion("none", JUndefined, NoError)

Settled(state, v, e) == [state |-> state, value |-> v, error |-> e]
Pending == Settled("pending", JUndefined, NoError)
Rejected(e) == Settled("rejected", JUndefined, e)
Fulfilled(v) == Settled("fulfilled", v, NoError)

(***************************************************************************)
(* Inputs and what a guest may write                                       *)
(***************************************************************************)
Inputs ==
  { JObj(<<[k |-> <<"n">>, v |-> JNum(100)]>>),
    JObj(<<[k |-> <<"a">>, v |-> JArr(<<JNull, JTrue>>)],
           [k |-> <<" ">>, v |-> JStr(<<QUOTE>>)]>>),
    JObj(<<>>),
    JArr(<<>>),
    JArr(<<JNum(1), JStr(<<>>), JArr(<<JFalse>>)>>),
    JNum(0), JNum(0 - 7), JNum(200),
    JStr(<<>>), JStr(<<" ", "a", QUOTE, BSLASH, NL, " ">>), JStr(<<"1">>),
    JNull, JTrue, JFalse }

\* besides its input: what the guest may write to the output channel
OutTexts ==
  { <<>>,
    <<"2", "0", "0">>,
    <<" ", "2", "0", "0", NL>>,
    <<"n", "o", "t", " ", "j", "s", "o", "n">> }

\* what the guest may write to the error channel
ErrTexts ==
  { <<>>,
    <<" ", NL>>,
    <<"o", "o", "p", "s">>,
    <<"o", "o", "p", "s", NL>>,
    <<QUOTE, "o", "o", "p", "s", QUOTE>>,
    <<"0">>,
    <<"f", "a", "l", "s", "e">>,
    <<"n", "u", "l", "l">>,
    <<QUOTE, QUOTE>>,
    <<"[", "]">>,
    <<"{", QUOTE, "a", QUOTE, ":", "1", "}">> }

(***************************************************************************)
(* State                                                                   *)
(***************************************************************************)
VARIABLES
  variant,      \* which script runs
  input,        \* the value passed as input
  pc,           \* the step the invocation is at
  files,        \* the three temporary files: [exists, data]
  handle,       \* each FileHandle: none, opening, open, failed, closing, closed
  closes,       \* close() calls per handle
  compiled,     \* the modules compiled so far
  instantiated, \* the instances created, in order
  imports,      \* the import object the guest was instantiated against
  calls,        \* the sandbox entry calls made, in order
  sandbox,      \* idle, running, returned, trapped, threw
  reads,        \* the reads of the output and error channel after the run
  readsIssued,  \* readOutput calls on the output or error channel so far
  out,          \* const [out, err]
  err,
  exc,          \* the exception last raised
  completion,   \* how try/catch completed, pending the finally block
  result,       \* the promise of the invocation
  content,      \* readOutput alone: the file content
  decoded,      \* readOutput alone: its completion
  inv,          \* two invocations at once: the state of each
  tmpdir        \* two invocations at once: the files of the directory

vars == <<variant, input, pc, files, handle, closes, compiled, instantiated,
          imports, calls, sandbox, reads, readsIssued, out, err, exc,
          completion, result, content, decoded, inv, tmpdir>>

NoFile == [exists |-> FALSE, data |-> <<>>]
NotDecoded == [threw |-> FALSE, v |-> JUndefined]

Init ==
  /\ variant \in Variants
  /\ input \in Inputs
  /\ pc = Steps(variant)[1]
  /\ files = [ch \in Channels |-> NoFile]
  /\ handle = [ch \in Channels |-> "none"]
  /\ closes = [ch \in Channels |-> 0]
  /\ compiled = {}
  /\ instantiated = <<>>
  /\ imports = {}
  /\ calls = <<>>
  /\ sandbox = "idle"
  /\ reads = [ch \in {"stdout", "stderr"} |-> "idle"]
  /\ readsIssued = 0
  /\ out = JUndefined
  /\ err = JUndefined
  /\ exc = NoError
  /\ completion = NoCompletion
  /\ result = Pending
  /\ inv = <<>>
  /\ tmpdir = <<>>
  /\ content = <<>>
  /\ decoded = NotDecoded

\* an exception raised at the current step: into the catch handler inside
\* try, out of the function otherwise
Raise(e) ==
  /\ exc' = e
  /\ IF InTry(variant, pc)
     THEN pc' = "catch" /\ UNCHANGED result
     ELSE pc' = "done" /\ result' = Rejected(e)

Advance == pc' = NextStep(variant, pc)

(***************************************************************************)
(* Steps of an invocation                                                  *)
(***************************************************************************)
\* Promise.all([compileModule(embedded), compileModule(provider)]) of the
\* top-level script of runJavy
CompileModules(r) ==
  /\ pc = "compileModules"
  /\ IF r = "ok"
     THEN compiled' = {"guest", "provider"} /\ Advance /\ UNCHANGED <<exc, result>>
     ELSE Raise(IF r = "CompileError" THEN CompileError ELSE SystemError)
          /\ UNCHANGED compiled
  /\ UNCHANGED <<variant, input, files, handle, closes, instantiated, imports,
                 calls, sandbox, reads, readsIssued, out, err, completion,
                 content, decoded, inv, tmpdir>>

\* await WebAssembly.compile(await readFile(...)) inside run
CompileOne(step, module, r) ==
  /\ pc = step
  /\ IF r = "ok"
     THEN compiled' = compiled \cup {module} /\ Advance /\ UNCHANGED <<exc, result>>
     ELSE Raise(IF r = "CompileError" THEN CompileError ELSE SystemError)
          /\ UNCHANGED compiled
  /\ UNCHANGED <<variant, input, files, handle, closes, instantiated, imports,
                 calls, sandbox, reads, readsIssued, out, err, completion,
                 content, decoded, inv, tmpdir>>
CompileGuest(r) == CompileOne("compileGuest", "guest", r)
CompileProvider(r) == CompileOne("compileProvider", "provider", r)

\* the serialized input goes to the input channel: writeFile(path) creates
\* or truncates the file, stdinFile.writeFile of runC writes through the
\* handle opened with "a+"
WriteInput(ok) ==
  /\ pc = "writeInput"
  /\ IF ok
     THEN /\ files' = [files EXCEPT !["stdin"] =
                        [exists |-> TRUE,
                         data |-> IF variant = "runC"
                                  THEN files["stdin"].data \o SerializeInput(input)
                                  ELSE SerializeInput(input)]]
          /\ Advance
          /\ UNCHANGED <<exc, result>>
     ELSE Raise(SystemError) /\ UNCHANGED files
  /\ UNCHANGED <<variant, input, handle, closes, compiled, instantiated,
                 imports, calls, sandbox, reads, readsIssued, out, err,
                 completion, content, decoded, inv, tmpdir>>

\* Promise.all([open(stdin), open(stdout), open(stderr)]): the three opens
\* are issued together
OpenIssue ==
  /\ pc = "open"
  /\ \A ch \in Channels : handle[ch] = "none"
  /\ handle' = [ch \in Channels |-> "opening"]
  /\ UNCHANGED <<variant, input, pc, files, closes, compiled, instantiated,
                 imports, calls, sandbox, reads, readsIssued, out, err, exc,
                 completion, result, content, decoded, inv, tmpdir>>

\* one open settles, also after the invocation has given up on the others;
\* "r" needs the file, "a" and "a+" create it
OpenSettle(ch, ok) ==
  /\ handle[ch] = "opening"
  /\ IF ok /\ (OpenFlags(variant, ch) = "r" => files[ch].exists)
     THEN /\ handle' = [handle EXCEPT ![ch] = "open"]
          /\ files' = [files EXCEPT ![ch].exists = TRUE]
     ELSE /\ handle' = [handle EXCEPT ![ch] = "failed"]
          /\ UNCHANGED files
  /\ UNCHANGED <<variant, input, pc, closes, compiled, instantiated, imports,
                 calls, sandbox, reads, readsIssued, out, err, exc, completion,
                 result, content, decoded, inv, tmpdir>>

\* the three handles are there: into try
OpenJoin ==
  /\ pc = "open"
  /\ \A ch \in Channels : handle[ch] = "open"
  /\ Advance
  /\ UNCHANGED <<variant, input, files, handle, closes, compiled, instantiated,
                 imports, calls, sandbox, reads, readsIssued, out, err, exc,
                 completion, result, content, decoded, inv, tmpdir>>

\* Promise.all rejects with the first open that fails
OpenReject ==
  /\ pc = "open"
  /\ \E ch \in Channels : handle[ch] = "failed"
  /\ Raise(SystemError)
  /\ UNCHANGED <<variant, input, files, handle, closes, compiled, instantiated,
                 imports, calls, sandbox, reads, readsIssued, out, err,
                 completion, content, decoded, inv, tmpdir>>

\* WebAssembly.instantiate(provider, wasi.getImportObject())
InstProvider(r) ==
  /\ pc = "instProvider"
  /\ IF r = "ok"
     THEN /\ instantiated' = Append(instantiated, "provider")
          /\ Advance
          /\ UNCHANGED <<exc, result>>
     ELSE /\ Raise(IF r = "LinkError" THEN LinkError ELSE RuntimeError)
          /\ UNCHANGED instantiated
  /\ UNCHANGED <<variant, input, files, handle, closes, compiled, imports,
                 calls, sandbox, reads, readsIssued, out, err, completion,
                 content, decoded, inv, tmpdir>>

\* WebAssembly.instantiate(guest, imports)
InstGuest(r) ==
  /\ pc = "instGuest"
  /\ imports' = GuestImports(variant)
  /\ IF r = "ok"
     THEN /\ instantiated' = Append(instantiated, "guest")
          /\ Advance
          /\ UNCHANGED <<exc, result>>
     ELSE /\ Raise(IF r = "LinkError" THEN LinkError ELSE RuntimeError)
          /\ UNCHANGED instantiated
  /\ UNCHANGED <<variant, input, files, handle, closes, compiled, calls,
                 sandbox, reads, readsIssued, out, err, completion, content,
                 decoded, inv, tmpdir>>

EntrySteps == {"start", "initialize", "_start"}

\* wasi.start(instance), wasi.initialize(providerInstance) or
\* instance.exports._start() is entered
EntryCall ==
  /\ pc \in EntrySteps
  /\ sandbox # "running"
  /\ sandbox' = "running"
  /\ calls' = Append(calls, pc)
  /\ UNCHANGED <<variant, input, pc, files, handle, closes, compiled,
                 instantiated, imports, reads, readsIssued, out, err, exc,
                 completion, result, content, decoded, inv, tmpdir>>

\* the call ends: the guest has appended o to the output and e to the error
\* channel, and returned, trapped (WebAssembly.RuntimeError), or the call
\* threw something else before any guest code ran
EntryEnd(o, e, r) ==
  /\ pc \in EntrySteps
  /\ sandbox = "running"
  /\ (pc = "initialize" \/ r = "threw") => (o = <<>> /\ e = <<>>)
  /\ sandbox' = r
  /\ files' = [files EXCEPT !["stdout"].data = @ \o o, !["stderr"].data = @ \o e]
  /\ CASE r = "returned" -> Advance /\ UNCHANGED <<exc, result>>
       [] r = "trapped" -> Raise(RuntimeError)
       [] r = "threw" -> Raise(TypeError)
  /\ UNCHANGED <<variant, input, handle, closes, compiled, instantiated,
                 imports, calls, reads, readsIssued, out, err, completion,
                 content, decoded, inv, tmpdir>>

\* Promise.all([readOutput(stdout), readOutput(stderr)]): both reads start
ReadIssue ==
  /\ pc = "read"
  /\ \A ch \in DOMAIN reads : reads[ch] = "idle"
  /\ reads' = [ch \in DOMAIN reads |-> "pending"]
  /\ readsIssued' = readsIssued + 2
  /\ UNCHANGED <<variant, input, pc, files, handle, closes, compiled,
                 instantiated, imports, calls, sandbox, out, err, exc,
                 completion, result, content, decoded, inv, tmpdir>>

\* one readOutput settles
ReadSettle(ch, ok) ==
  /\ pc = "read"
  /\ reads[ch] = "pending"
  /\ LET c == readOutput(files[ch].data)
     IN  IF ok /\ ~c.threw
         THEN /\ reads' = [reads EXCEPT ![ch] = "done"]
              /\ out' = IF ch = "stdout" THEN c.v ELSE out
              /\ err' = IF ch = "stderr" THEN c.v ELSE err
         ELSE /\ reads' = [reads EXCEPT ![ch] = "failed"]
              /\ UNCHANGED <<out, err>>
  /\ UNCHANGED <<variant, input, pc, files, handle, closes, compiled,
                 instantiated, imports, calls, sandbox, readsIssued, exc,
                 completion, result, content, decoded, inv, tmpdir>>

\* Promise.all rejects with the first read that fails
ReadReject ==
  /\ pc = "read"
  /\ \E ch \in DOMAIN reads : reads[ch] = "failed"
  /\ Raise(SystemError)
  /\ UNCHANGED <<variant, input, files, handle, closes, compiled, instantiated,
                 imports, calls, sandbox, reads, readsIssued, out, err,
                 completion, content, decoded, inv, tmpdir>>

\* if (err) throw new Error(err); return out;
CheckErr ==
  /\ pc = "read"
  /\ \A ch \in DOMAIN reads : reads[ch] = "done"
  /\ IF Truthy(err)
     THEN Raise(NewError(err)) /\ UNCHANGED completion
     ELSE /\ completion' = Completion("return", out, NoError)
          /\ pc' = "finally"
          /\ UNCHANGED <<exc, result>>
  /\ UNCHANGED <<variant, input, files, handle, closes, compiled, instantiated,
                 imports, calls, sandbox, reads, readsIssued, out, err,
                 content, decoded, inv, tmpdir>>

\* what the handler does once it has not thrown an error-channel message
HandlerRest(rest, e) ==
  IF rest = "rethrow" THEN Completion("throw", JUndefined, e)
  ELSE Completion("normal", JUndefined, NoError)

\* catch (e): either starts readOutput(stderrFilePath) or completes at once
Catch ==
  /\ pc = "catch"
  /\ LET h == Handler(variant, exc)
     IN  IF h.read
         THEN /\ pc' = "catchRead"
              /\ readsIssued' = readsIssued + 1
              /\ UNCHANGED completion
         ELSE /\ pc' = "finally"
              /\ completion' = HandlerRest(h.rest, exc)
              /\ UNCHANGED readsIssued
  /\ UNCHANGED <<variant, input, files, handle, closes, compiled, instantiated,
                 imports, calls, sandbox, reads, out, err, exc, result,
                 content, decoded, inv, tmpdir>>

\* const errorMessage = await readOutput(stderrFilePath);
\* if (errorMessage) throw new Error(errorMessage); ...
CatchRead(ok) ==
  /\ pc = "catchRead"
  /\ pc' = "finally"
  /\ LET c == readOutput(files["stderr"].data)
         h == Handler(variant, exc)
     IN  IF ~ok \/ c.threw
         THEN completion' = Completion("throw", JUndefined, SystemError)
              /\ exc' = SystemError
         ELSE IF Truthy(c.v)
         THEN completion' = Completion("throw", JUndefined, NewError(c.v))
              /\ exc' = NewError(c.v)
         ELSE completion' = HandlerRest(h.rest, exc) /\ UNCHANGED exc
  /\ UNCHANGED <<variant, input, files, handle, closes, compiled, instantiated,
                 imports, calls, sandbox, reads, readsIssued, out, err, result,
                 content, decoded, inv, tmpdir>>

\* finally: Promise.all([stdinFile.close(), stdoutFile.close(),
\* stderrFile.close()]): the closes are issued together
FinallyIssue ==
  /\ pc = "finally"
  /\ \A ch \in Channels : closes[ch] = 0
  /\ closes' = [ch \in Channels |-> IF ch \in FinallyCloses THEN 1 ELSE 0]
  /\ handle' = [ch \in Channels |->
                 IF ch \in FinallyCloses THEN "closing" ELSE handle[ch]]
  /\ UNCHANGED <<variant, input, pc, files, compiled, instantiated, imports,
                 calls, sandbox, reads, readsIssued, out, err, exc, completion,
                 result, content, decoded, inv, tmpdir>>

\* one close settles
CloseSettle(ch) ==
  /\ handle[ch] = "closing"
  /\ handle' = [handle EXCEPT ![ch] = "closed"]
  /\ UNCHANGED <<variant, input, pc, files, closes, compiled, instantiated,
                 imports, calls, sandbox, reads, readsIssued, out, err, exc,
                 completion, result, content, decoded, inv, tmpdir>>

\* the promise settles the way try/catch completed
Settle(c) ==
  CASE c.type = "throw" -> Rejected(c.error)
    [] c.type = "return" -> Fulfilled(c.value)
    [] c.type = "normal" -> Fulfilled(JUndefined)

\* the closes are done: the invocation settles
FinallyJoin ==
  /\ pc = "finally"
  /\ \E ch \in Channels : closes[ch] > 0
  /\ \A ch \in FinallyCloses : handle[ch] = "closed"
  /\ pc' = "done"
  /\ result' = Settle(completion)
  /\ UNCHANGED <<variant, input, files, handle, closes, compiled, instantiated,
                 imports, calls, sandbox, reads, readsIssued, out, err, exc,
                 completion, content, decoded, inv, tmpdir>>

CompileOutcomes == {"ok", "CompileError", "SystemError"}
InstOutcomes == {"ok", "LinkError", "RuntimeError"}
EntryOutcomes == {"returned", "trapped", "threw"}

Next ==
  \/ \E r \in CompileOutcomes : CompileModules(r)
  \/ \E r \in CompileOutcomes : CompileGuest(r)
  \/ \E r \in CompileOutcomes : CompileProvider(r)
  \/ \E ok \in BOOLEAN : WriteInput(ok)
  \/ OpenIssue
  \/ \E ch \in Channels, ok \in BOOLEAN : OpenSettle(ch, ok)
  \/ OpenJoin
  \/ OpenReject
  \/ \E r \in InstOutcomes : InstProvider(r)
  \/ \E r \in InstOutcomes : InstGuest(r)
  \/ EntryCall
  \/ \E o \in OutTexts \cup {files["stdin"].data}, e \in ErrTexts,
        r \in EntryOutcomes : EntryEnd(o, e, r)
  \/ ReadIssue
  \/ \E ch \in DOMAIN reads, ok \in BOOLEAN : ReadSettle(ch, ok)
  \/ ReadReject
  \/ CheckErr
  \/ Catch
  \/ \E ok \in BOOLEAN : CatchRead(ok)
  \/ FinallyIssue
  \/ \E ch \in Channels : CloseSettle(ch)
  \/ FinallyJoin

Spec == Init /\ [][Next]_vars

(***************************************************************************)
(* readOutput on its own: every content up to MaxLen characters over       *)
(* Alphabet, and the texts the invocations above exchange                  *)
(***************************************************************************)
RECURSIVE SeqsUpTo(_, _)
SeqsUpTo(S, n) ==
  IF n = 0 THEN {<<>>}
  ELSE LET shorter == SeqsUpTo(S, n - 1)
       IN  shorter \cup {Append(q, c) : q \in shorter, c \in S}

Contents ==
  SeqsUpTo(Alphabet, MaxLen) \cup OutTexts \cup ErrTexts
    \cup {SerializeInput(v) : v \in Inputs}

InitReadOutput ==
  /\ variant = "runJavy"
  /\ input = JNull
  /\ pc = "readOutput"
  /\ files = [ch \in Channels |-> NoFile]
  /\ handle = [ch \in Channels |-> "none"]
  /\ closes = [ch \in Channels |-> 0]
  /\ compiled = {}
  /\ instantiated = <<>>
  /\ imports = {}
  /\ calls = <<>>
  /\ sandbox = "idle"
  /\ reads = [ch \in {"stdout", "stderr"} |-> "idle"]
  /\ readsIssued = 0
  /\ out = JUndefined
  /\ err = JUndefined
  /\ exc = NoError
  /\ completion = NoCompletion
  /\ result = Pending
  /\ inv = <<>>
  /\ tmpdir = <<>>
  /\ content \in Contents
  /\ decoded = NotDecoded

ReadOutputCall ==
  /\ pc = "readOutput"
  /\ decoded' = readOutput(content)
  /\ pc' = "returned"
  /\ UNCHANGED <<variant, input, files, handle, closes, compiled, instantiated,
                 imports, calls, sandbox, reads, readsIssued, out, err, exc,
                 completion, result, content, inv, tmpdir>>

SpecReadOutput == InitReadOutput /\ [][ReadOutputCall]_vars

(***************************************************************************)
(* Two invocations of runJavy at once, on one temporary directory          *)
(***************************************************************************)
\* the variables of the single invocation, which the two leave alone
single == <<variant, input, pc, files, handle, closes, compiled, instantiated,
            imports, calls, sandbox, reads, readsIssued, out, err, exc,
            completion, result, content, decoded>>

Invocations == {"p", "q"}
\* values of crypto.randomUUID()
UUIDs == {"u1", "u2"}
ConcurrentInputs == {JNum(200), JStr(<<"1">>)}
ConcurrentOutTexts == {<<"2", "0", "0">>, <<"7">>}
ConcurrentErrTexts == {<<>>, <<"0">>, <<"o", "o", "p", "s">>}

\* a channel file named without the invocation's identifier
ChannelPathShared(ch, uniqueId) == <<ch, "wasm", "txt">>
\* join(workDir, `${ch}.wasm.${uniqueId}.txt`)
ChannelPath(ch, uniqueId) == <<ch, "wasm", uniqueId, "txt">>
Paths == {ChannelPath(ch, u) : ch \in Channels, u \in UUIDs}
PathOf(i, ch) == ChannelPath(ch, inv[i].uniqueId)

\* a file of the directory, with the invocations that have used it
NoTmpFile == [exists |-> FALSE, data |-> <<>>, users |-> {}]

\* runJavy is entered with its own uniqueId and input
Entered(u, v) ==
  [ uniqueId |-> u, input |-> v, pc |-> "writeInput",
    handle |-> [ch \in Channels |-> "none"],
    sandbox |-> "idle",
    stdin |-> <<>>,      \* what the guest read from its input channel
    guestOut |-> <<>>,   \* what the guest wrote to its output channel
    guestErr |-> <<>>,   \* what the guest wrote to its error channel
    reads |-> [ch \in {"stdout", "stderr"} |-> "idle"],
    out |-> JUndefined, err |-> JUndefined,
    exc |-> NoError, completion |-> NoCompletion, result |-> Pending ]

InitConcurrent ==
  /\ variant = "runJavy"
  /\ input = JNull
  /\ pc = "concurrent"
  /\ files = [ch \in Channels |-> NoFile]
  /\ handle = [ch \in Channels |-> "none"]
  /\ closes = [ch \in Channels |-> 0]
  /\ compiled = {}
  /\ instantiated = <<>>
  /\ imports = {}
  /\ calls = <<>>
  /\ sandbox = "idle"
  /\ reads = [ch \in {"stdout", "stderr"} |-> "idle"]
  /\ readsIssued = 0
  /\ out = JUndefined
  /\ err = JUndefined
  /\ exc = NoError
  /\ completion = NoCompletion
  /\ result = Pending
  /\ content = <<>>
  /\ decoded = NotDecoded
  /\ \E u \in [Invocations -> UUIDs], v \in [Invocations -> ConcurrentInputs] :
       /\ \A i, j \in Invocations : i # j => u[i] # u[j]
       /\ inv = [i \in Invocations |-> Entered(u[i], v[i])]
  /\ tmpdir = [p \in Paths |-> NoTmpFile]

\* the exception e leaves the try block of invocation i
Raised(i, e) == [inv EXCEPT ![i].exc = e, ![i].pc = "catch"]
\* invocation i fails outside the try block
Failed(i, e) ==
  [inv EXCEPT ![i].exc = e, ![i].pc = "done", ![i].result = Rejected(e)]
Advanced(i) == [inv EXCEPT ![i].pc = NextStep("runJavy", inv[i].pc)]

\* await writeFile(stdinFilePath, JSON.stringify(input))
WriteInputOf(i, ok) ==
  /\ inv[i].pc = "writeInput"
  /\ IF ok
     THEN /\ tmpdir' = [tmpdir EXCEPT ![PathOf(i, "stdin")] =
                          [exists |-> TRUE,
                           data |-> SerializeInput(inv[i].input),
                           users |-> @.users \cup {i}]]
          /\ inv' = Advanced(i)
     ELSE /\ inv' = Failed(i, SystemError)
          /\ UNCHANGED tmpdir
  /\ UNCHANGED single

\* Promise.all([open(stdinFilePath, "r"), open(stdoutFilePath, "a"),
\* open(stderrFilePath, "a")]) is called
OpenIssueOf(i) ==
  /\ inv[i].pc = "open"
  /\ \A ch \in Channels : inv[i].handle[ch] = "none"
  /\ inv' = [inv EXCEPT ![i].handle = [ch \in Channels |-> "opening"]]
  /\ UNCHANGED <<tmpdir, single>>

\* one open settles; "a" creates the file, "r" needs it to exist
OpenSettleOf(i, ch, ok) ==
  /\ inv[i].handle[ch] = "opening"
  /\ LET p == PathOf(i, ch)
         opened == ok /\ (OpenFlags("runJavy", ch) = "r" => tmpdir[p].exists)
     IN  IF opened
         THEN /\ inv' = [inv EXCEPT ![i].handle[ch] = "open"]
              /\ tmpdir' = [tmpdir EXCEPT ![p].exists = TRUE,
                                          ![p].users = @ \cup {i}]
         ELSE /\ inv' = [inv EXCEPT ![i].handle[ch] = "failed"]
              /\ UNCHANGED tmpdir
  /\ UNCHANGED single

\* the three opens are fulfilled
OpenJoinOf(i) ==
  /\ inv[i].pc = "open"
  /\ \A ch \in Channels : inv[i].handle[ch] = "open"
  /\ inv' = Advanced(i)
  /\ UNCHANGED <<tmpdir, single>>

\* one open is rejected: Promise.all rejects, outside try
OpenRejectOf(i) ==
  /\ inv[i].pc = "open"
  /\ \E ch \in Channels : inv[i].handle[ch] = "failed"
  /\ inv' = Failed(i, SystemError)
  /\ UNCHANGED <<tmpdir, single>>

\* WebAssembly.instantiate(providerModule, wasi.getImportObject())
InstProviderOf(i, r) ==
  /\ inv[i].pc = "instProvider"
  /\ inv' = IF r = "ok" THEN Advanced(i) ELSE Raised(i, LinkError)
  /\ UNCHANGED <<tmpdir, single>>

\* WebAssembly.instantiate(embeddedModule, {javy_quickjs_provider_v1: ...})
InstGuestOf(i, r) ==
  /\ inv[i].pc = "instGuest"
  /\ inv' = IF r = "ok" THEN Advanced(i) ELSE Raised(i, LinkError)
  /\ UNCHANGED <<tmpdir, single>>

\* wasi.initialize(providerInstance)
InitializeOf(i, r) ==
  /\ inv[i].pc = "initialize"
  /\ inv' = IF r = "returned"
            THEN [Advanced(i) EXCEPT ![i].sandbox = r]
            ELSE [Raised(i, RuntimeError) EXCEPT ![i].sandbox = r]
  /\ UNCHANGED <<tmpdir, single>>

\* instance.exports._start() is entered: the guest reads its input channel
StartCallOf(i) ==
  /\ inv[i].pc = "_start"
  /\ inv[i].sandbox = "returned"
  /\ LET p == PathOf(i, "stdin")
     IN  /\ inv' = [inv EXCEPT ![i].sandbox = "running",
                               ![i].stdin = tmpdir[p].data]
         /\ tmpdir' = [tmpdir EXCEPT ![p].users = @ \cup {i}]
  /\ UNCHANGED single

\* the guest has appended o to its output and e to its error channel, and
\* returns or traps
StartEndOf(i, o, e, r) ==
  /\ inv[i].pc = "_start"
  /\ inv[i].sandbox = "running"
  /\ tmpdir' = [tmpdir EXCEPT
                  ![PathOf(i, "stdout")] =
                    [@ EXCEPT !.data = @ \o o, !.users = @ \cup {i}],
                  ![PathOf(i, "stderr")] =
                    [@ EXCEPT !.data = @ \o e, !.users = @ \cup {i}]]
  /\ LET ran == [inv EXCEPT ![i].sandbox = r, ![i].guestOut = o,
                            ![i].guestErr = e]
     IN  inv' = IF r = "returned"
                THEN [ran EXCEPT ![i].pc = NextStep("runJavy", "_start")]
                ELSE [ran EXCEPT ![i].exc = RuntimeError, ![i].pc = "catch"]
  /\ UNCHANGED single

\* Promise.all([readOutput(stdoutFilePath), readOutput(stderrFilePath)])
ReadIssueOf(i) ==
  /\ inv[i].pc = "read"
  /\ \A ch \in DOMAIN inv[i].reads : inv[i].reads[ch] = "idle"
  /\ inv' = [inv EXCEPT ![i].reads = [ch \in DOMAIN @ |-> "pending"]]
  /\ UNCHANGED <<tmpdir, single>>

\* one readOutput settles
ReadSettleOf(i, ch, ok) ==
  /\ inv[i].reads[ch] = "pending"
  /\ LET p == PathOf(i, ch)
         v == readOutput(tmpdir[p].data).v
     IN  IF ok
         THEN /\ inv' = [inv EXCEPT
                           ![i].reads[ch] = "done",
                           ![i].out = IF ch = "stdout" THEN v ELSE @,
                           ![i].err = IF ch = "stderr" THEN v ELSE @]
              /\ tmpdir' = [tmpdir EXCEPT ![p].users = @ \cup {i}]
         ELSE /\ inv' = [inv EXCEPT ![i].reads[ch] = "failed"]
              /\ UNCHANGED tmpdir
  /\ UNCHANGED single

\* one read is rejected: Promise.all rejects, inside try
ReadRejectOf(i) ==
  /\ inv[i].pc = "read"
  /\ \E ch \in DOMAIN inv[i].reads : inv[i].reads[ch] = "failed"
  /\ inv' = Raised(i, SystemError)
  /\ UNCHANGED <<tmpdir, single>>

\* if (err) throw new Error(err); return out;
CheckErrOf(i) ==
  /\ inv[i].pc = "read"
  /\ \A ch \in DOMAIN inv[i].reads : inv[i].reads[ch] = "done"
  /\ inv' = IF Truthy(inv[i].err)
            THEN Raised(i, NewError(inv[i].err))
            ELSE [inv EXCEPT
                    ![i].completion = Completion("return", inv[i].out, NoError),
                    ![i].pc = "finally"]
  /\ UNCHANGED <<tmpdir, single>>

\* catch (e)
CatchOf(i) ==
  /\ inv[i].pc = "catch"
  /\ LET h == Handler("runJavy", inv[i].exc)
     IN  inv' = IF h.read
                THEN [inv EXCEPT ![i].pc = "catchRead"]
                ELSE [inv EXCEPT
                        ![i].completion = HandlerRest(h.rest, inv[i].exc),
                        ![i].pc = "finally"]
  /\ UNCHANGED <<tmpdir, single>>

\* const errorMessage = await readOutput(stderrFilePath); ...
CatchReadOf(i, ok) ==
  /\ inv[i].pc = "catchRead"
  /\ LET p == PathOf(i, "stderr")
         c == readOutput(tmpdir[p].data)
         h == Handler("runJavy", inv[i].exc)
     IN  IF ~ok
         THEN /\ inv' = [inv EXCEPT
                 ![i].completion = Completion("throw", JUndefined, SystemError),
                 ![i].exc = SystemError,
                 ![i].pc = "finally"]
              /\ UNCHANGED tmpdir
         ELSE /\ inv' = [inv EXCEPT
                 ![i].completion =
                    IF Truthy(c.v)
                    THEN Completion("throw", JUndefined, NewError(c.v))
                    ELSE HandlerRest(h.rest, inv[i].exc),
                 ![i].exc = IF Truthy(c.v) THEN NewError(c.v) ELSE @,
                 ![i].pc = "finally"]
              /\ tmpdir' = [tmpdir EXCEPT ![p].users = @ \cup {i}]
  /\ UNCHANGED single

\* finally: the three handles are closed and the promise settles
FinallyOf(i) ==
  /\ inv[i].pc = "finally"
  /\ inv' = [inv EXCEPT ![i].handle = [ch \in Channels |-> "closed"],
                        ![i].result = Settle(inv[i].completion),
                        ![i].pc = "done"]
  /\ UNCHANGED <<tmpdir, single>>

NextConcurrent ==
  \E i \in Invocations :
    \/ \E ok \in BOOLEAN : WriteInputOf(i, ok)
    \/ OpenIssueOf(i)
    \/ \E ch \in Channels, ok \in BOOLEAN : OpenSettleOf(i, ch, ok)
    \/ OpenJoinOf(i)
    \/ OpenRejectOf(i)
    \/ \E r \in {"ok", "LinkError"} : InstProviderOf(i, r)
    \/ \E r \in {"ok", "LinkError"} : InstGuestOf(i, r)
    \/ \E r \in {"returned", "trapped"} : InitializeOf(i, r)
    \/ StartCallOf(i)
    \/ \E o \in ConcurrentOutTexts \cup {inv[i].stdin},
          e \in ConcurrentErrTexts, r \in {"returned", "trapped"} :
            StartEndOf(i, o, e, r)
    \/ ReadIssueOf(i)
    \/ \E ch \in DOMAIN inv[i].reads, ok \in BOOLEAN : ReadSettleOf(i, ch, ok)
    \/ ReadRejectOf(i)
    \/ CheckErrOf(i)
    \/ CatchOf(i)
    \/ \E ok \in BOOLEAN : CatchReadOf(i, ok)
    \/ FinallyOf(i)

SpecConcurrent == InitConcurrent /\ [][NextConcurrent]_vars

(***************************************************************************)
(* Properties                                                              *)
(***************************************************************************)
Done == pc = "done"
ErrorChannel == files["stderr"].data
\* the invocation got its three handles (and so entered try)
HandlesOpened == \A ch \in Channels : handle[ch] \in {"open", "closing", "closed"}
\* a file-system call of the host failed on the way
HostIOFailed == exc.name = "SystemError"

\* C1: once an invocation has opened its three channel handles, close() is
\* called exactly once on each of them and the three closes have completed
\* when the invocation settles, whatever the exit path; close() is never
\* called twice on a handle.
C1_HandlesClosedOnce ==
  /\ \A ch \in Channels : closes[ch] <= 1
  /\ (result.state # "pending" /\ HandlesOpened) =>
       \A ch \in Channels : closes[ch] = 1 /\ handle[ch] = "closed"

\* an invocation that trapped has settled with its three handles closed
C1_Witness ==
  /\ Done /\ sandbox = "trapped" /\ result.state = "rejected"
  /\ \A ch \in Channels : closes[ch] = 1 /\ handle[ch] = "closed"

\* C2: when the entry call traps while the error channel holds text, run
\* (src/host.mjs) and runJavy end in a failure whose message is the error
\* channel's content (as written, trimmed, or decoded), never in success.
C2_TrapReportsErrorChannel ==
  (/\ Done /\ variant \in {"runA", "runB", "runJavy"}
   /\ sandbox = "trapped" /\ Trim(ErrorChannel) # <<>> /\ ~HostIOFailed)
  => /\ result.state = "rejected"
     /\ result.error.message \in
          {ErrorChannel, Trim(ErrorChannel),
           JSToString(readOutput(ErrorChannel).v)}

\* C3: when the entry call traps and the error channel is empty, the
\* invocation still ends in a failure, in every variant.
C3_TrapAlwaysFails ==
  (Done /\ sandbox = "trapped" /\ Trim(ErrorChannel) = <<>>)
  => result.state = "rejected"

\* C4: when the sandbox returns normally and the error channel is not empty
\* after trimming, the invocation fails, whatever the two channels hold
\* (stated of runJavy, the variant the claim is drawn from).
C4_ErrorChannelFails ==
  (/\ Done /\ variant = "runJavy"
   /\ sandbox = "returned" /\ Trim(ErrorChannel) # <<>>)
  => result.state = "rejected"

\* C6: when the guest has copied the input channel to the output channel,
\* written nothing to the error channel and returned, and no file-system
\* call of the host failed, the invocation succeeds with the input value.
C6_RoundTrip ==
  (/\ Done /\ sandbox = "returned"
   /\ files["stdout"].data = files["stdin"].data
   /\ ErrorChannel = <<>>
   /\ ~HostIOFailed)
  => result = Fulfilled(input)

\* an object with two members, one of them a string holding a quote, came back
C6_Witness ==
  /\ Done /\ sandbox = "returned"
  /\ files["stdout"].data = files["stdin"].data
  /\ input.t = "object" /\ Len(input.o) = 2
  /\ result = Fulfilled(input)

InputWritten ==
  files["stdin"].exists /\ files["stdin"].data = SerializeInput(input)

\* C7: the serialized input is in the input channel when a sandbox entry
\* point is invoked; no read of the output or error channel has started
\* while an entry call runs; and once such a read has started no entry
\* point is invoked any more.
C7_PhaseOrder ==
  /\ [](calls # <<>> => InputWritten)
  /\ [](sandbox = "running" => readsIssued = 0)
  /\ [][readsIssued > 0 => calls' = calls]_vars

\* runC has written, run the guest and started its reads
C7_Witness ==
  /\ variant = "runC" /\ InputWritten
  /\ calls = <<"start">> /\ sandbox = "returned" /\ readsIssued = 2

\* C8: when an invocation of run (src/host.mjs) or runJavy is over, one of
\* its three opens having failed and the other two having settled, none of
\* its channel handles is left open: the two that were opened are closed.
C8_OpenedHandlesClosed ==
  (/\ Done /\ variant \in {"runA", "runJavy"}
   /\ Cardinality({ch \in Channels : handle[ch] = "failed"}) = 1
   /\ \A ch \in Channels : handle[ch] # "opening")
  => \A ch \in Channels : handle[ch] # "open"

\* C9: in run (src/host.mjs) and under runJavy, when a module fails to
\* compile no channel file exists and no channel handle has been asked for.
C9_CompileFailsBeforeChannels ==
  (variant \in {"runA", "runJavy"} /\ exc.name = "CompileError") =>
    \A ch \in Channels : ~files[ch].exists /\ handle[ch] = "none"

LinkingVariants == {"runA", "runB", "runJavy"}
\* the guest's instantiation failed with a LinkError
GuestLinkFailed ==
  imports # {} /\ exc.name = "LinkError" /\ Len(instantiated) = 1

\* C10: in the variants that link a provider, when the guest's
\* instantiation fails with a LinkError no sandbox entry point is called and
\* the invocation fails with that LinkError.
C10_LinkErrorBeforeEntry ==
  (variant \in LinkingVariants /\ GuestLinkFailed)
  => /\ calls = <<>>
     /\ sandbox = "idle"
     /\ result.state # "fulfilled"
     /\ Done => result = Rejected(LinkError)

\* runJavy failed with the guest's LinkError
C10_Witness ==
  /\ variant = "runJavy" /\ GuestLinkFailed /\ Done
  /\ result = Rejected(LinkError)
  /\ \A ch \in Channels : handle[ch] = "closed"

(***************************************************************************)
(* What readOutput is to return, stated from the JSON grammar rather than  *)
(* from a parser: the JSON texts of at most n characters over Alphabet,    *)
(* each with its value.                                                    *)
(***************************************************************************)
\* -?(0|[1-9][0-9]*) over the digits of Alphabet
IsNumberText(t) ==
  LET body == IF t # <<>> /\ t[1] = "-" THEN Tail(t) ELSE t
  IN  /\ body # <<>>
      /\ \A i \in 1..Len(body) : body[i] \in Digits
      /\ Len(body) > 1 => body[1] # "0"
RECURSIVE Pow10(_)
Pow10(k) == IF k = 0 THEN 1 ELSE 10 * Pow10(k - 1)
RECURSIVE SumDigits(_, _)
SumDigits(body, i) ==
  IF i > Len(body) THEN 0
  ELSE DigitVal[body[i]] * Pow10(Len(body) - i) + SumDigits(body, i + 1)
NumberValue(t) ==
  IF t[1] = "-" THEN 0 - SumDigits(Tail(t), 1) ELSE SumDigits(t, 1)
NumberTexts(n) ==
  { [text |-> t, v |-> JNum(NumberValue(t))] :
      t \in {q \in SeqsUpTo(Alphabet \cap (Digits \cup {"-"}), n) : IsNumberText(q)} }

\* the pieces of a string literal: a plain character, or an escape
StringPieces ==
  { [text |-> <<c>>, s |-> <<c>>] :
      c \in Alphabet \ ({QUOTE, BSLASH} \cup ControlChars) }
  \cup { [text |-> <<BSLASH, c>>, s |-> <<EscapeMap[c]>>] :
           c \in Alphabet \cap DOMAIN EscapeMap }
RECURSIVE StringBodies(_)
StringBodies(n) ==
  IF n <= 0 THEN {[text |-> <<>>, s |-> <<>>]}
  ELSE LET shorter == StringBodies(n - 1)
       IN  shorter \cup
           { [text |-> b.text \o p.text, s |-> b.s \o p.s] :
               <<b, p>> \in {x \in shorter \X StringPieces :
                               Len(x[1].text) + Len(x[2].text) <= n} }
StringTexts(n) ==
  { [text |-> <<QUOTE>> \o b.text \o <<QUOTE>>, v |-> JStr(b.s)] :
      b \in StringBodies(n - 2) }

LiteralTexts(n) ==
  { l \in { [text |-> <<"n", "u", "l", "l">>, v |-> JNull],
            [text |-> <<"t", "r", "u", "e">>, v |-> JTrue],
            [text |-> <<"f", "a", "l", "s", "e">>, v |-> JFalse] } :
      Len(l.text) <= n /\ \A i \in 1..Len(l.text) : l.text[i] \in Alphabet }

WsRuns(n) == SeqsUpTo(Alphabet \cap JsonWs, n)

RECURSIVE ValueTexts(_)
RECURSIVE ElementLists(_)
\* a value with white space around it
PaddedTexts(n) ==
  { [text |-> x[1] \o x[2].text \o x[3], v |-> x[2].v] :
      x \in {y \in WsRuns(n) \X ValueTexts(n) \X WsRuns(n) :
               Len(y[1]) + Len(y[2].text) + Len(y[3]) <= n} }
\* element, or element "," elements
ElementLists(n) ==
  IF n <= 0 THEN {}
  ELSE LET one == PaddedTexts(n)
       IN  { [text |-> e.text, a |-> <<e.v>>] : e \in one }
           \cup UNION { { [text |-> e.text \o <<",">> \o l.text,
                           a |-> <<e.v>> \o l.a] :
                            l \in ElementLists(n - Len(e.text) - 1) } :
                        e \in one }
ArrayTexts(n) ==
  IF n < 2 THEN {}
  ELSE { [text |-> <<"[">> \o w \o <<"]">>, v |-> JArr(<<>>)] : w \in WsRuns(n - 2) }
       \cup { [text |-> <<"[">> \o l.text \o <<"]">>, v |-> JArr(l.a)] :
                l \in ElementLists(n - 2) }
ValueTexts(n) ==
  IF n <= 0 THEN {}
  ELSE NumberTexts(n) \cup StringTexts(n) \cup LiteralTexts(n) \cup ArrayTexts(n)

JsonTexts == ValueTexts(MaxLen)

\* str[i..j] is str without the white space at its two ends
TrimBounds(str, i, j) ==
  /\ \A k \in 1..(i - 1) : str[k] \in TrimWs
  /\ \A k \in (j + 1)..Len(str) : str[k] \in TrimWs
  /\ IF i <= j THEN str[i] \notin TrimWs /\ str[j] \notin TrimWs
     ELSE i = Len(str) + 1 /\ j = Len(str)

\* the texts the invocations exchange, each with the value it is to decode to
Exchanged ==
  { <<SerializeInput(v), v>> : v \in Inputs }
  \cup { <<<<"2", "0", "0">>, JNum(200)>>,
         <<<<" ", "2", "0", "0", NL>>, JNum(200)>>,
         <<<<"n", "o", "t", " ", "j", "s", "o", "n">>,
           JStr(<<"n", "o", "t", " ", "j", "s", "o", "n">>)>>,
         <<<<>>, JStr(<<>>)>>,
         <<<<" ", NL>>, JStr(<<>>)>>,
         <<<<"o", "o", "p", "s">>, JStr(<<"o", "o", "p", "s">>)>>,
         <<<<"o", "o", "p", "s", NL>>, JStr(<<"o", "o", "p", "s">>)>>,
         <<<<QUOTE, "o", "o", "p", "s", QUOTE>>, JStr(<<"o", "o", "p", "s">>)>>,
         <<<<"0">>, JNum(0)>>,
         <<<<"f", "a", "l", "s", "e">>, JFalse>>,
         <<<<"n", "u", "l", "l">>, JNull>>,
         <<<<QUOTE, QUOTE>>, JStr(<<>>)>>,
         <<<<"[", "]">>, JArr(<<>>)>>,
         <<<<"{", QUOTE, "a", QUOTE, ":", "1", "}">>,
           JObj(<<[k |-> <<"a">>, v |-> JNum(1)]>>)>> }

\* v is what readOutput is to return for the content c
IsDecodingOf(v, c) ==
  IF \E x \in Exchanged : x[1] = c
  THEN \E x \in Exchanged : x[1] = c /\ x[2] = v
  ELSE \E i \in 1..(Len(c) + 1), j \in 0..Len(c) :
         /\ TrimBounds(c, i, j)
         /\ LET t == SubSeq(c, i, j)
            IN  IF \E g \in JsonTexts : g.text = t
                THEN \E g \in JsonTexts : g.text = t /\ g.v = v
                ELSE v = JStr(t)

\* C5: for every channel content readOutput returns, without raising, the
\* value of the trimmed content when that is a JSON text, and the trimmed
\* text itself otherwise (the empty string for an empty or blank content).
C5_ReadOutputDecodes ==
  pc = "returned" => ~decoded.threw /\ IsDecodingOf(decoded.v, content)

\* a content that is not JSON came back as text, without the white space
\* (U+00A0 included) that surrounded it
C5_Witness ==
  /\ pc = "returned"
  /\ content = <<NBSP, "a", " ">>
  /\ decoded = [threw |-> FALSE, v |-> JStr(<<"a">>)]

\* the errors of the host itself: a module that does not compile, an
\* instantiation that does not link, an entry call that throws without
\* trapping, a channel file that cannot be read
HostErrorNames == {"CompileError", "LinkError", "TypeError", "SystemError"}

\* C11: an invocation in which a host-side error other than a trap was
\* raised after the channels were opened never resolves: it settles as a
\* failure, in every variant.
C11_HostErrorsSurface ==
  (Done /\ HandlesOpened /\ exc.name \in HostErrorNames)
  => result.state = "rejected"

\* the instantiations and the entry calls of runJavy come in this order
C14_Order ==
  /\ instantiated \in {<<>>, <<"provider">>, <<"provider", "guest">>}
  /\ calls \in {<<>>, <<"initialize">>, <<"initialize", "_start">>}
  /\ calls # <<>> => instantiated = <<"provider", "guest">>
\* a step that calls _start is taken after initialize has returned
C14_StartStep ==
  (calls' # calls /\ calls'[Len(calls')] = "_start")
  => (calls = <<"initialize">> /\ sandbox = "returned")

\* C14: in runJavy the provider is instantiated before the guest,
\* initialize is called on the provider after both instantiations and
\* before the guest's _start, and _start is called only when initialize has
\* returned without raising.
C14_ReactorOrder ==
  /\ [](variant = "runJavy" => C14_Order)
  /\ [][variant = "runJavy" => C14_StartStep]_vars

\* runJavy has instantiated both, initialized the provider and run _start
C14_Witness ==
  /\ variant = "runJavy" /\ Done
  /\ instantiated = <<"provider", "guest">>
  /\ calls = <<"initialize", "_start">> /\ sandbox = "returned"

Occurrences(seq, x) == Cardinality({i \in 1..Len(seq) : seq[i] = x})
\* the end states of the Runner
Faulted == sandbox = "trapped"
Finished == sandbox = "returned" /\ pc \notin EntrySteps

\* C15: each sandbox entry point is invoked at most once in an invocation
\* and only on an instantiated guest; once the Runner is Finished or
\* Faulted it stays so and no further sandbox call is made.
C15_RunnerLifecycle ==
  /\ [](\A step \in EntrySteps : Occurrences(calls, step) <= 1)
  /\ [](calls # <<>> => Occurrences(instantiated, "guest") = 1)
  /\ [][(Faulted \/ Finished) => UNCHANGED <<sandbox, calls>>]_vars

\* run of src/host.mjs trapped in its one call of wasi.start and has settled
C15_Witness ==
  /\ variant = "runA" /\ Done /\ Faulted
  /\ calls = <<"start">> /\ result.state = "rejected"

\* C16: in the variants that link a provider, the import object the guest
\* is instantiated against has exactly one entry, the namespace
\* javy_quickjs_provider_v1 bound to the exports of the provider instance
\* this invocation has created, and no other entry.
C16_SingleImportEntry ==
  (variant \in LinkingVariants /\ imports # {})
  => /\ imports = {ImportEntry(ProviderNamespace, "providerInstance.exports")}
     /\ Occurrences(instantiated, "provider") = 1

\* the sandbox returned, both channels were read inside try and the error
\* channel's decoded content was thrown as an application error
AppErrorThrown ==
  /\ sandbox = "returned" /\ pc # "read"
  /\ \A ch \in DOMAIN reads : reads[ch] = "done"
  /\ Truthy(err)

\* C17: an application error thrown inside try is neither swallowed nor
\* replaced by the handler: in every variant the invocation fails with the
\* error that was thrown, whose message is the error channel's content.
C17_AppErrorPassesThrough ==
  (Done /\ AppErrorThrown) => result = Rejected(NewError(err))

\* what runJavy settles with, absent a host failure, when the sandbox ended
\* as r and its guest has written o and e
OutcomeOf(r, o, e) ==
  LET ev == readOutput(e).v
  IN  IF Truthy(ev) THEN Rejected(NewError(ev))
      ELSE IF r = "trapped" THEN Rejected(RuntimeError)
      ELSE Fulfilled(readOutput(o).v)

\* invocation i is over and its sandbox was entered
SandboxEnded(i) ==
  inv[i].pc = "done" /\ inv[i].sandbox \in {"returned", "trapped"}

\* C12: of two invocations of runJavy that run at once on one temporary
\* directory with distinct identifiers, neither uses a channel file of the
\* other, each guest reads the input of its own invocation, each invocation
\* reads back exactly what its own guest wrote, and its result is the one
\* these texts and the sandbox's end determine.
C12_ChannelIsolation ==
  /\ \A i, j \in Invocations :
       (i # j /\ inv[i].uniqueId # inv[j].uniqueId)
       => \A ch \in Channels : i \notin tmpdir[PathOf(j, ch)].users
  /\ \A i \in Invocations :
       /\ inv[i].sandbox = "running"
          => inv[i].stdin = SerializeInput(inv[i].input)
       /\ inv[i].reads["stdout"] = "done"
          => inv[i].out = readOutput(inv[i].guestOut).v
       /\ inv[i].reads["stderr"] = "done"
          => inv[i].err = readOutput(inv[i].guestErr).v
       /\ (SandboxEnded(i) /\ inv[i].exc.name # "SystemError")
          => inv[i].result =
               OutcomeOf(inv[i].sandbox, inv[i].guestOut, inv[i].guestErr)

\* p has resolved with its own echoed input while q, whose guest wrote
\* other texts, is still reading
C12_Witness ==
  /\ inv["p"].uniqueId # inv["q"].uniqueId
  /\ inv["p"].pc = "done"
  /\ inv["p"].guestOut = SerializeInput(inv["p"].input)
  /\ inv["p"].result = Fulfilled(inv["p"].input)
  /\ inv["q"].pc = "read" /\ inv["q"].reads["stderr"] = "pending"
  /\ inv["q"].guestOut = <<"7">>
  /\ inv["q"].guestErr = <<"o", "o", "p", "s">>

\* C13: a trap and a normal return that leave the same text on the error
\* channel are reported by different failure values: the failure tells a
\* SandboxFault from an ApplicationError.
C13_FailureKindsDiffer ==
  \A i, j \in Invocations :
    (/\ SandboxEnded(i) /\ inv[i].sandbox = "trapped"
     /\ SandboxEnded(j) /\ inv[j].sandbox = "returned"
     /\ inv[i].guestErr = inv[j].guestErr
     /\ inv[i].result.state = "rejected" /\ inv[j].result.state = "rejected"
     /\ inv[i].exc.name # "SystemError" /\ inv[j].exc.name # "SystemError")
    => inv[i].result.error # inv[j].result.error

=============================================================================
